---- MODULE Spec2Model ----
(***************************************************************************)
(* Gameplay simulation loop of the BuliMaps game viewer: Player            *)
(* (locomotion / animation state machine, ground sensor, vertical          *)
(* physics), GameCamera (cinematic-fall -> third-person state machine)     *)
(* and the controls state that feeds them.                                 *)
(*                                                                         *)
(* Fixed-point units (all quantities are integers):                        *)
(*   time      1 = 0.01 s      (delta, timers)                             *)
(*   velocity  1 = 0.01 m/s    (verticalVelocity, speeds)                  *)
(*   length    1 = 0.0001 m    (= velocity unit * time unit)               *)
(*   angle     1 = 0.001 rad   (yaw, azimuth, polar)                       *)
(* so that  v += GRAVITY * delta  and  y += v * delta  are exact.          *)
(*                                                                         *)
(* The horizontal position of the character is one coordinate x measured   *)
(* along the character's heading, with the spawn point at x = 0.  The      *)
(* world's collision geometry is a surface at height GROUND_Y; whether the *)
(* column under the character holds it is an input of each frame.          *)
(***************************************************************************)
EXTENDS Integers, FiniteSets, Sequences, TLC

VARIABLES player, gameCamera, controlsState, pointerLock, viewer, frame, hist

vars == <<player, gameCamera, controlsState, pointerLock, viewer, frame, hist>>

(***************************************************************************)
(* Program constants                                                       *)
(***************************************************************************)
GRAVITY == -15
JUMP_FORCE == 800
RAYCAST_HEIGHT == 50000
GROUNDED_BUFFER_TIME == 20
GROUND_TOLERANCE == 1000
SPAWN_ALTITUDE == 2400000
SPAWN_INITIAL_VELOCITY == -100
WALK_SPEED == 250
SPRINT_SPEED == 500
AIR_CONTROL_TENTHS == 6
TERMINAL_VELOCITY == -4500
FALL_ANIM_DELAY == 40
FALL_ANIM_SPEED == -10
SPRINT_THRESHOLD == 100
VOID_Y == -500000
TURN_RATE == 30
PI == 3142
FALL_TRANSITION_DURATION == 200
LANDING_BUFFER == 20
MOUSE_SENSITIVITY == 2
POLAR_MIN == 600
POLAR_MARGIN == 100
ALTITUDE_CUTOFF == 1000000

(***************************************************************************)
(* The world and the character model the assets resolve to                 *)
(***************************************************************************)
GROUND_Y == 0
FEET_OFFSET == 2000
Clips == {"idle", "walk", "sprint", "jump"}

(***************************************************************************)
(* Bounds of the model                                                     *)
(***************************************************************************)
MaxTravel == 26250
MaxDrift == 2250
MaxTurn == 600
MaxOrbit == 200
MaxCinematic == 10
MaxMisses == 2
MaxRamp == 120
AngleStep == 174
MaxAngleSteps == 80
MaxLoads == 2

\* Frame times clock.getDelta() may return
Deltas == {0, 15}
GroundDeltas == {15}

(***************************************************************************)
(* Helpers for JavaScript arithmetic                                       *)
(***************************************************************************)
\* integer part of n / d, rounded toward zero
TruncDiv(n, d) == IF n >= 0 THEN n \div d ELSE -((-n) \div d)

\* JavaScript's % : the remainder has the sign of the dividend
JsMod(n, m) == n - m * TruncDiv(n, m)

\* THREE.MathUtils.clamp
Clamp(v, lo, hi) == IF v < lo THEN lo ELSE IF v > hi THEN hi ELSE v

(***************************************************************************)
(* Ground sensor: the downward ray of Player.update                        *)
(***************************************************************************)
\* fault: the ray is cast from the character's origin, not from
\* RAYCAST_HEIGHT above it, and so finds no surface the character has sunk
\* below
RaycastFromOrigin(y, geometry) ==
    IF geometry /\ y >= GROUND_Y
    THEN << [distance |-> y + RAYCAST_HEIGHT - GROUND_Y, point |-> GROUND_Y] >>
    ELSE << >>

\* raycaster.intersectObjects: the hits of the ray cast straight down from
\* RAYCAST_HEIGHT above the character, nearest first.  `geometry` says
\* whether the column under the character holds the surface.
Raycast(y, geometry) ==
    IF geometry /\ y + RAYCAST_HEIGHT >= GROUND_Y
    THEN << [distance |-> y + RAYCAST_HEIGHT - GROUND_Y, point |-> GROUND_Y] >>
    ELSE << >>

\* fault: a hit at exactly the limit distance counts as ground
GroundedAtLimit(hits, feetOffset) ==
    /\ Len(hits) > 0
    /\ hits[1].distance <= RAYCAST_HEIGHT + feetOffset + GROUND_TOLERANCE

\* Player.update, ground check: the sensor reading of the frame
Grounded(hits, feetOffset) ==
    /\ Len(hits) > 0
    /\ hits[1].distance < RAYCAST_HEIGHT + feetOffset + GROUND_TOLERANCE

(***************************************************************************)
(* Player                                                                  *)
(***************************************************************************)
SpawnState ==
    [idle |-> FALSE, walking |-> FALSE, sprinting |-> FALSE,
     jumping |-> TRUE, falling |-> TRUE]

SpawnY == GROUND_Y + SPAWN_ALTITUDE

SpawnTimeSinceGrounded == GROUNDED_BUFFER_TIME + 1

\* fault: the clip that was active is left playing under the new one
SwitchAnimationKeepsPrevious(p, name) ==
    IF name \notin p.animations THEN p
    ELSE IF p.currentAnimation = name THEN p
    ELSE [p EXCEPT !.currentAnimation = name,
                   !.playing = @ \cup {name},
                   !.loopOnce = IF name = "jump" THEN @ \cup {name} ELSE @]

\* fault: a clip that was not loaded is switched to all the same
SwitchAnimationUnchecked(p, name) ==
    IF p.currentAnimation = name THEN p
    ELSE [p EXCEPT !.currentAnimation = name,
                   !.playing = (@ \ {p.currentAnimation}) \cup {name},
                   !.loopOnce = IF name = "jump" THEN @ \cup {name} ELSE @]

\* Player._switchAnimation: cross-fade to another clip
SwitchAnimation(p, name) ==
    IF name \notin p.animations THEN p
    ELSE IF p.currentAnimation = name THEN p
    ELSE [p EXCEPT !.currentAnimation = name,
                   !.playing = (@ \ {p.currentAnimation}) \cup {name},
                   !.loopOnce = IF name = "jump" THEN @ \cup {name} ELSE @]

\* Player constructor
NewPlayer ==
    [x |-> 0, y |-> 0, yaw |-> 0, tilt |-> 0,
     state |-> SpawnState,
     verticalVelocity |-> SPAWN_INITIAL_VELOCITY,
     walkToSprintTime |-> 0,
     timeSinceGrounded |-> SpawnTimeSinceGrounded,
     feetOffset |-> 0,
     animations |-> {},
     currentAnimation |-> "none",
     playing |-> {},
     loopOnce |-> {}]

\* Player.load of a character file that holds the clips `clips`: feet
\* offset, spawn position, clips stopped, jump clip started
PlayerLoadClips(p, clips) ==
    SwitchAnimation(
        [p EXCEPT !.feetOffset = FEET_OFFSET,
                  !.x = 0, !.y = SpawnY, !.yaw = PI,
                  !.animations = clips,
                  !.playing = {}],
        "jump")

\* Player.load of a character file that holds every clip the player asks for
PlayerLoad(p) == PlayerLoadClips(p, Clips)

\* fault: the respawn flips the heading it finds instead of setting it
PlayerResetFlips(p) ==
    SwitchAnimation(
        [p EXCEPT !.x = 0, !.y = SpawnY,
                  !.tilt = 0,
                  !.yaw = @ + PI,
                  !.verticalVelocity = SPAWN_INITIAL_VELOCITY,
                  !.timeSinceGrounded = SpawnTimeSinceGrounded,
                  !.state = SpawnState],
        "jump")

\* Player.reset
PlayerReset(p) ==
    SwitchAnimation(
        [p EXCEPT !.x = 0, !.y = SpawnY,
                  !.tilt = 0,
                  !.yaw = PI,
                  !.verticalVelocity = SPAWN_INITIAL_VELOCITY,
                  !.timeSinceGrounded = SpawnTimeSinceGrounded,
                  !.state = SpawnState],
        "jump")

\* fault: a not-grounded reading sets falling at once, without the buffer
GroundCheckUnbuffered(p, grounded, delta) ==
    IF grounded
    THEN [p EXCEPT !.timeSinceGrounded = 0,
                   !.state.falling = FALSE,
                   !.state.jumping = FALSE]
    ELSE [p EXCEPT !.timeSinceGrounded = @ + delta,
                   !.state.falling = ~p.state.jumping]

\* fault: past the buffer falling is set whether or not the character is in
\* a jump
GroundCheckFallingDespiteJump(p, grounded, delta) ==
    IF grounded
    THEN LET q == [p EXCEPT !.timeSinceGrounded = 0]
         IN  IF q.state.falling \/ q.state.jumping
             THEN [q EXCEPT !.state.falling = FALSE,
                            !.state.jumping = FALSE,
                            !.tilt = 0]
             ELSE q
    ELSE LET q == [p EXCEPT !.timeSinceGrounded = @ + delta]
         IN  IF q.timeSinceGrounded > GROUNDED_BUFFER_TIME
             THEN [q EXCEPT !.state.falling = TRUE]
             ELSE q

\* fault: a grounded reading restarts the grounded timer at the frame time
\* instead of at zero
GroundCheckTimerRunsOn(p, grounded, delta) ==
    IF grounded
    THEN LET q == [p EXCEPT !.timeSinceGrounded = delta]
         IN  IF q.state.falling \/ q.state.jumping
             THEN [q EXCEPT !.state.falling = FALSE,
                            !.state.jumping = FALSE,
                            !.tilt = 0]
             ELSE q
    ELSE LET q == [p EXCEPT !.timeSinceGrounded = @ + delta]
         IN  IF q.timeSinceGrounded > GROUNDED_BUFFER_TIME /\ ~q.state.jumping
             THEN [q EXCEPT !.state.falling = TRUE]
             ELSE q

\* Player.update, ground check: the grounded timer and the airborne flags
GroundCheck(p, grounded, delta) ==
    IF grounded
    THEN LET q == [p EXCEPT !.timeSinceGrounded = 0]
         IN  IF q.state.falling \/ q.state.jumping
             THEN [q EXCEPT !.state.falling = FALSE,
                            !.state.jumping = FALSE,
                            !.tilt = 0]
             ELSE q
    ELSE LET q == [p EXCEPT !.timeSinceGrounded = @ + delta]
         IN  IF q.timeSinceGrounded > GROUNDED_BUFFER_TIME /\ ~q.state.jumping
             THEN [q EXCEPT !.state.falling = TRUE]
             ELSE q

\* Player.update, the two transition readings of a frame that finds the
\* player p and the sensor reading `grounded`
JustLeftGround(p, grounded) == ~grounded /\ p.timeSinceGrounded < GROUNDED_BUFFER_TIME

JustLanded(p, grounded) == grounded /\ ~(p.timeSinceGrounded < GROUNDED_BUFFER_TIME)

\* fault: leaving the ground clears sprinting along with walking
LeaveGroundClearsSprint(p) ==
    LET q == IF p.currentAnimation \in {"walk", "sprint"}
             THEN SwitchAnimation(p, "idle")
             ELSE p
    IN  [q EXCEPT !.state.walking = FALSE, !.state.sprinting = FALSE]

\* Player.update, leave ground
LeaveGround(p) ==
    LET q == IF p.currentAnimation \in {"walk", "sprint"}
             THEN SwitchAnimation(p, "idle")
             ELSE p
    IN  [q EXCEPT !.state.walking = FALSE]

\* fault: the jump clears sprinting along with the other ground flags
JumpInputDropsSprint(p) ==
    LET q == SwitchAnimation([p EXCEPT !.verticalVelocity = JUMP_FORCE], "jump")
    IN  [q EXCEPT !.state = [idle |-> FALSE, walking |-> FALSE,
                             sprinting |-> FALSE,
                             jumping |-> TRUE, falling |-> FALSE]]

\* Player.update, jump input
JumpInput(p) ==
    LET q == SwitchAnimation([p EXCEPT !.verticalVelocity = JUMP_FORCE], "jump")
    IN  [q EXCEPT !.state = [idle |-> FALSE, walking |-> FALSE,
                             sprinting |-> q.state.sprinting,
                             jumping |-> TRUE, falling |-> FALSE]]

Moving(controls) == controls.forward \/ controls.backward

\* dir.z : +1 forward, -1 backward (backward wins when both are held)
DirZ(controls) ==
    IF controls.backward THEN -1 ELSE IF controls.forward THEN 1 ELSE 0

\* fault: the step is taken at full speed in the air as on the ground
HorizontalStepFullSpeedInAir(p, delta, controls, grounded) ==
    LET baseSpeed == IF p.state.sprinting THEN SPRINT_SPEED ELSE WALK_SPEED
    IN  DirZ(controls) * baseSpeed * delta

\* horizontal displacement of one frame
HorizontalStep(p, delta, controls, grounded) ==
    LET baseSpeed == IF p.state.sprinting THEN SPRINT_SPEED ELSE WALK_SPEED
    IN  IF grounded
        THEN DirZ(controls) * baseSpeed * delta
        ELSE DirZ(controls) * TruncDiv(baseSpeed * AIR_CONTROL_TENTHS * delta, 10)

\* fault: steering in the air at the reduced speed drops sprinting
MovementInputAirDropsSprint(p, delta, controls, grounded) ==
    LET turned == [p EXCEPT !.yaw = @ + (IF controls.left THEN TURN_RATE * delta ELSE 0)
                                      - (IF controls.right THEN TURN_RATE * delta ELSE 0)]
    IN  IF Moving(controls)
        THEN [turned EXCEPT !.x = @ + HorizontalStep(turned, delta, controls, grounded),
                            !.state.sprinting = @ /\ grounded]
        ELSE turned

\* Player.update, movement input: turning, then the horizontal step
MovementInput(p, delta, controls, grounded) ==
    LET turned == [p EXCEPT !.yaw = @ + (IF controls.left THEN TURN_RATE * delta ELSE 0)
                                      - (IF controls.right THEN TURN_RATE * delta ELSE 0)]
    IN  IF Moving(controls)
        THEN [turned EXCEPT !.x = @ + HorizontalStep(turned, delta, controls, grounded)]
        ELSE turned

\* fault: the velocity is integrated without the terminal-velocity clamp
ClampTerminalMissing(v) == v

ClampTerminal(v) == IF v < TERMINAL_VELOCITY THEN TERMINAL_VELOCITY ELSE v

\* fault: a grounded descent is stopped where it is, without the snap of the
\* feet to the contact point
VerticalPhysicsNoSnap(p, delta, grounded, hits) ==
    LET q == [p EXCEPT !.verticalVelocity = ClampTerminal(@ + GRAVITY * delta)]
        r == IF grounded /\ q.verticalVelocity < 0
             THEN [q EXCEPT !.verticalVelocity = 0]
             ELSE q
    IN  [r EXCEPT !.y = @ + r.verticalVelocity * delta]

\* Player.update, vertical physics
VerticalPhysics(p, delta, grounded, hits) ==
    LET q == [p EXCEPT !.verticalVelocity = ClampTerminal(@ + GRAVITY * delta)]
        r == IF grounded /\ q.verticalVelocity < 0
             THEN [q EXCEPT !.verticalVelocity = 0,
                            !.y = hits[1].point + q.feetOffset]
             ELSE q
    IN  [r EXCEPT !.y = @ + r.verticalVelocity * delta]

\* fault: the jump clip gives way as soon as the character descends, without
\* the delay
FallPlaceholderNoDelay(p, grounded) ==
    IF /\ ~grounded
       /\ p.currentAnimation = "jump"
       /\ p.verticalVelocity < FALL_ANIM_SPEED
    THEN SwitchAnimation(p, "idle")
    ELSE p

\* Player.update, animation state machine: jump -> fall placeholder
FallPlaceholder(p, grounded) ==
    IF /\ ~grounded
       /\ p.currentAnimation = "jump"
       /\ p.timeSinceGrounded > FALL_ANIM_DELAY
       /\ p.verticalVelocity < FALL_ANIM_SPEED
    THEN SwitchAnimation(p, "idle")
    ELSE p

\* automatic sprint ramp-up of a grounded moving frame
SprintRamp(p, delta) ==
    IF p.state.sprinting THEN p
    ELSE LET q == [p EXCEPT !.walkToSprintTime = @ + delta]
         IN  IF q.walkToSprintTime > SPRINT_THRESHOLD
             THEN SwitchAnimation([q EXCEPT !.state.sprinting = TRUE], "sprint")
             ELSE q

\* fault: a standstill on the ground leaves sprinting as it is
GroundedAnimationIdleKeepsSprint(p, delta, moving) ==
    IF moving
    THEN LET desiredAnim == IF p.state.sprinting THEN "sprint" ELSE "walk"
             q == IF p.currentAnimation # desiredAnim
                  THEN SwitchAnimation(p, desiredAnim)
                  ELSE p
             r == SprintRamp(q, delta)
         IN  [r EXCEPT !.state.idle = FALSE,
                       !.state.walking = ~r.state.sprinting]
    ELSE LET q == IF p.currentAnimation # "idle"
                  THEN SwitchAnimation(p, "idle")
                  ELSE p
         IN  [q EXCEPT !.walkToSprintTime = 0,
                       !.state.idle = TRUE,
                       !.state.walking = FALSE]

\* Player.update, animation state machine: the grounded branch
GroundedAnimation(p, delta, moving) ==
    IF moving
    THEN LET desiredAnim == IF p.state.sprinting THEN "sprint" ELSE "walk"
             q == IF p.currentAnimation # desiredAnim
                  THEN SwitchAnimation(p, desiredAnim)
                  ELSE p
             r == SprintRamp(q, delta)
         IN  [r EXCEPT !.state.idle = FALSE,
                       !.state.walking = ~r.state.sprinting]
    ELSE LET q == IF p.currentAnimation # "idle"
                  THEN SwitchAnimation(p, "idle")
                  ELSE p
         IN  [q EXCEPT !.walkToSprintTime = 0,
                       !.state.idle = TRUE,
                       !.state.walking = FALSE,
                       !.state.sprinting = FALSE]

\* the character has fallen through the world
BelowVoid(p) == p.y < VOID_Y

\* fault: the jump is accepted on the debounced reading, so within the
\* grounded buffer as well
PlayerIntegrateCoyote(p, delta, controls, geometry) ==
    LET hits == Raycast(p.y, geometry)
        grounded == Grounded(hits, p.feetOffset)
        p1 == GroundCheck(p, grounded, delta)
        justLeftGround == JustLeftGround(p, grounded)
        p2 == IF justLeftGround THEN LeaveGround(p1) ELSE p1
        p3 == IF p1.timeSinceGrounded < GROUNDED_BUFFER_TIME /\ controls.jump
              THEN JumpInput(p2) ELSE p2
        p4 == MovementInput(p3, delta, controls, grounded)
        p5 == VerticalPhysics(p4, delta, grounded, hits)
        p6 == FallPlaceholder(p5, grounded)
    IN  IF grounded THEN GroundedAnimation(p6, delta, Moving(controls)) ELSE p6

\* Player.update up to the housekeeping step
PlayerIntegrate(p, delta, controls, geometry) ==
    LET hits == Raycast(p.y, geometry)
        grounded == Grounded(hits, p.feetOffset)
        p1 == GroundCheck(p, grounded, delta)
        justLeftGround == JustLeftGround(p, grounded)
        p2 == IF justLeftGround THEN LeaveGround(p1) ELSE p1
        p3 == IF grounded /\ controls.jump THEN JumpInput(p2) ELSE p2
        p4 == MovementInput(p3, delta, controls, grounded)
        p5 == VerticalPhysics(p4, delta, grounded, hits)
        p6 == FallPlaceholder(p5, grounded)
    IN  IF grounded THEN GroundedAnimation(p6, delta, Moving(controls)) ELSE p6

\* fault: the fail-safe reset leaves the airborne flags cleared
HousekeepingClearsFlags(p) ==
    IF BelowVoid(p)
    THEN [PlayerReset(p) EXCEPT !.state.jumping = FALSE, !.state.falling = FALSE]
    ELSE p

\* Player.update, housekeeping: the fail-safe reset
Housekeeping(p) == IF BelowVoid(p) THEN PlayerReset(p) ELSE p

\* Player.update
PlayerUpdate(p, delta, controls, geometry) ==
    Housekeeping(PlayerIntegrate(p, delta, controls, geometry))


(***************************************************************************)
(* GameCamera                                                              *)
(***************************************************************************)
\* GameCamera constructor
NewCamera ==
    [mode |-> "CINEMATIC_FALL",
     polar |-> TruncDiv(PI, 3),
     azimuth |-> PI,
     cinematicTimer |-> 0,
     smoothedLookAt |-> "zero",
     position |-> "zero",
     tracked |-> <<0, 0>>]

\* fault: the mode follows the grounded reading in both directions
CheckLandingTwoWay(c, playerIsGrounded, p) ==
    IF playerIsGrounded /\ c.mode = "CINEMATIC_FALL"
    THEN [c EXCEPT !.mode = "THIRD_PERSON", !.azimuth = p.yaw + PI]
    ELSE IF ~playerIsGrounded THEN [c EXCEPT !.mode = "CINEMATIC_FALL"]
    ELSE c

\* GameCamera.checkLanding
CheckLanding(c, playerIsGrounded, p) ==
    IF playerIsGrounded /\ c.mode = "CINEMATIC_FALL"
    THEN [c EXCEPT !.mode = "THIRD_PERSON", !.azimuth = p.yaw + PI]
    ELSE c

\* fault: the remainder is used as it comes, without the wrap of a negative one
ShortestAngleDiffUnwrapped(a, b) == JsMod(b - a + PI, 2 * PI) - PI

\* GameCamera._shortestAngleDiff
ShortestAngleDiff(a, b) ==
    LET diff == JsMod(b - a + PI, 2 * PI) - PI
    IN  IF diff < -PI THEN diff + 2 * PI ELSE diff

\* GameCamera.lerpAngle with t = tNum / tDen
LerpAngle(a, b, tNum, tDen) == a + TruncDiv(ShortestAngleDiff(a, b) * tNum, tDen)

\* cinematicTimer += delta.  The timer is read only through
\* min(cinematicTimer / FALL_TRANSITION_DURATION, 1); it is counted up to
\* MaxCinematic, past the end of the transition.
AdvanceCinematic(timer, delta) ==
    IF timer + delta > FALL_TRANSITION_DURATION + MaxCinematic
    THEN FALL_TRANSITION_DURATION + MaxCinematic
    ELSE timer + delta

\* fault: the camera starts its establishing shot again when it finds the
\* character back at the spawn point
CameraUpdateRestartsOnRespawn(c, p, delta, forceImmediate, mouseLookActive) ==
    LET respawned == p.y = SpawnY /\ p.timeSinceGrounded = SpawnTimeSinceGrounded
        moded == IF respawned
                 THEN [c EXCEPT !.mode = "CINEMATIC_FALL", !.cinematicTimer = 0,
                                !.azimuth = p.yaw + PI]
                 ELSE IF c.mode = "CINEMATIC_FALL"
                 THEN [c EXCEPT !.cinematicTimer = AdvanceCinematic(@, delta)]
                 ELSE IF ~mouseLookActive
                      THEN [c EXCEPT !.azimuth = LerpAngle(@, p.yaw + PI, 1, 10)]
                      ELSE c
        how == IF forceImmediate THEN "snapped" ELSE "lerped"
    IN  [moded EXCEPT !.position = how, !.smoothedLookAt = how,
                      !.tracked = <<p.x, p.y>>]

\* GameCamera.update: the mode's own state, then the unified smoothing.  The
\* camera transform is kept as the way it was last written: "snapped" onto
\* the freshly computed target (forceImmediate) or "lerped" towards it, and
\* as the character position that target was computed from (`tracked`).
CameraUpdate(c, p, delta, forceImmediate, mouseLookActive) ==
    LET moded == IF c.mode = "CINEMATIC_FALL"
                 THEN [c EXCEPT !.cinematicTimer = AdvanceCinematic(@, delta)]
                 ELSE IF ~mouseLookActive
                      THEN [c EXCEPT !.azimuth = LerpAngle(@, p.yaw + PI, 1, 10)]
                      ELSE c
        how == IF forceImmediate THEN "snapped" ELSE "lerped"
    IN  [moded EXCEPT !.position = how, !.smoothedLookAt = how,
                      !.tracked = <<p.x, p.y>>]

\* GameCamera.reset
CameraReset(c, p, mouseLookActive) ==
    CameraUpdate(
        [c EXCEPT !.mode = "CINEMATIC_FALL",
                  !.azimuth = p.yaw + PI,
                  !.cinematicTimer = 0,
                  !.smoothedLookAt = "snapped"],
        p, 0, TRUE, mouseLookActive)

\* fault: the polar angle follows the mouse without the clamp
MouseLookUnclamped(c, mouseLookActive, movementX, movementY) ==
    IF mouseLookActive
    THEN [c EXCEPT !.azimuth = @ - movementX * MOUSE_SENSITIVITY,
                   !.polar = @ - movementY * MOUSE_SENSITIVITY]
    ELSE c

\* the mouse-look callback createGameViewer hands to initControls
MouseLook(c, mouseLookActive, movementX, movementY) ==
    IF mouseLookActive
    THEN [c EXCEPT !.azimuth = @ - movementX * MOUSE_SENSITIVITY,
                   !.polar = Clamp(@ - movementY * MOUSE_SENSITIVITY,
                                   POLAR_MIN, TruncDiv(PI, 2) - POLAR_MARGIN)]
    ELSE c

(***************************************************************************)
(* Controls                                                                *)
(***************************************************************************)
NoControls ==
    [forward |-> FALSE, backward |-> FALSE, left |-> FALSE, right |-> FALSE,
     jump |-> FALSE, mouseLookActive |-> FALSE]

\* the key and touch intents the events between two frames can leave set
LocomotionIntents ==
    { [NoControls EXCEPT !.forward = (m = 1), !.backward = (m = -1), !.jump = j] :
        m \in {-1, 0, 1}, j \in BOOLEAN }

JumpIntents == { [NoControls EXCEPT !.jump = j] : j \in BOOLEAN }

\* <<movementX, movementY>> of a mousemove event, in pixels
MouseMoves == {<<100, 0>>, <<0, 500>>, <<0, -500>>}

TurnIntents ==
    { [NoControls EXCEPT !.left = l, !.right = r] : l \in BOOLEAN, r \in BOOLEAN }

\* every combination of the four movement keys
SteerIntents ==
    { [NoControls EXCEPT !.forward = f, !.backward = b, !.left = l, !.right = r] :
        f \in BOOLEAN, b \in BOOLEAN, l \in BOOLEAN, r \in BOOLEAN }

\* the intents with the mouse-look flag as the mouse handlers left it
WithMouse(keys, cs) == [keys EXCEPT !.mouseLookActive = cs.mouseLookActive]

(***************************************************************************)
(* History of the run, for stating the properties                          *)
(***************************************************************************)
NoFrame ==
    [op |-> "load", short |-> TRUE, grounded |-> FALSE, prevGrounded |-> FALSE,
     jumped |-> FALSE, moving |-> FALSE, voidReset |-> FALSE, firstLanding |-> FALSE,
     ramped |-> FALSE, justLeftGround |-> FALSE, justLanded |-> FALSE]

NoHist ==
    [landed |-> FALSE, misses |-> 0, accum |-> 0, ep |-> "off", epAny |-> "off",
     dropout |-> "off"]

\* a sprint-jump episode: "air" from the frame of a grounded jump triggered
\* while sprinting with forward held, "landed" on the first grounded frame
\* after it, as long as forward stays held
NextEpisode(ep, p, controls, grounded) ==
    IF grounded /\ controls.jump /\ controls.forward /\ p.state.sprinting
    THEN "air"
    ELSE IF ep = "air" /\ controls.forward
         THEN (IF grounded THEN "landed" ELSE "air")
         ELSE "off"

\* a sensor dropout while moving on the ground: "steady" after a grounded
\* frame with a movement intent that ends walking or sprinting; "kept" or
\* "flickered" after a frame that follows it on which the ray misses the
\* surface under the character's feet, movement still held, according to
\* whether that frame has left the walking, sprinting and falling flags and
\* the current clip as it found them; "single-kept" or "single-flickered"
\* when the very next frame is grounded again
DropoutEpisode(dropout, before, after, moving, grounded, inReach) ==
    IF grounded
    THEN IF dropout = "kept" THEN "single-kept"
         ELSE IF dropout = "flickered" THEN "single-flickered"
         ELSE IF moving /\ (after.state.walking \/ after.state.sprinting)
              THEN "steady"
              ELSE "off"
    ELSE IF dropout = "steady" /\ moving /\ inReach
         THEN (IF /\ after.state.walking = before.state.walking
                  /\ after.state.sprinting = before.state.sprinting
                  /\ after.state.falling = before.state.falling
                  /\ after.currentAnimation = before.currentAnimation
               THEN "kept"
               ELSE "flickered")
         ELSE "off"

\* grounded moving time since the last spawn, reset or grounded standstill,
\* counted up to the first value above the threshold
NextAccum(accum, delta, moving, grounded) ==
    IF ~grounded THEN accum
    ELSE IF ~moving THEN 0
    ELSE IF accum > SPRINT_THRESHOLD THEN accum
    ELSE accum + delta

(***************************************************************************)
(* The viewer module: its state variables, the frame request, the event    *)
(* listeners it has registered and the render resources it holds           *)
(***************************************************************************)
\* the module's state variables; `held` is the set of those that are not null
ModuleState ==
    {"scene", "camera", "renderer", "clock", "raycaster", "sunLight", "sunTarget",
     "sunMesh", "moonLight", "ambientLight", "starField", "starMaterial", "player",
     "gameCamera", "mapCollider", "graphicsManager", "loadedWorldUrl"}

\* the listeners initControls registers on the window, on the canvas and on
\* the touch buttons
WindowListeners == {"keydown", "keyup", "mouseup", "mousemove", "contextmenu"}

CanvasListeners == {"mousedown"}

ButtonListeners == {"touch"}

\* no asset load has been rejected, no error thrown to the caller
NoRejection == [asset |-> "none", message |-> "none"]

NoError == [tag |-> "none", text |-> "none", cause |-> "none"]

\* the fallback shadow system: castShadow of the sun light and
\* fallbackState.shadowsActive of the ShadowManager.  A light casts no shadow
\* when it is constructed.
NoShadows == [castShadow |-> FALSE, shadowsActive |-> FALSE]

\* ShadowManager constructor and init with GraphicsConfig.shadows:
\* initFallbackShadows on the fallbackState of the constructor
InitFallbackShadows == [castShadow |-> TRUE, shadowsActive |-> FALSE]

\* ShadowManager.updateFallbackSystem, the shadow switch, for a player at
\* height y
UpdateFallbackSystem(s, y) ==
    LET playerIsHigh == y > ALTITUDE_CUTOFF
    IN  IF playerIsHigh /\ s.shadowsActive
        THEN [castShadow |-> FALSE, shadowsActive |-> FALSE]
        ELSE IF ~playerIsHigh /\ ~s.shadowsActive
        THEN [castShadow |-> TRUE, shadowsActive |-> TRUE]
        ELSE s

\* the viewer module before createGameViewer was ever called.  `loading`:
\* the number of createGameViewer calls that await their assets; `rejection`:
\* the loader error the last failed call met; `error`: what it threw to its
\* caller; `cancelled` and
\* `disposed`: what the last _destroyAll cancelled and disposed of; `shadows`:
\* the shadow switch of the sun light and the graphics manager the module
\* holds.
NoViewer ==
    [held |-> {}, animationFrameId |-> FALSE, listeners |-> {},
     loading |-> 0, mobile |-> FALSE,
     rejection |-> NoRejection, error |-> NoError,
     cancelled |-> FALSE, disposed |-> {},
     shadows |-> NoShadows]

InitScene(v) ==
    [v EXCEPT !.held = @ \cup {"scene", "renderer", "camera", "clock", "raycaster"},
              !.listeners = @ \cup {"resize"}]

InitLights(v) ==
    [v EXCEPT !.held = @ \cup {"ambientLight", "sunLight", "sunTarget", "sunMesh",
                               "moonLight"}]

InitStars(v) == [v EXCEPT !.held = @ \cup {"starMaterial", "starField"}]

\* fault: the frame loop is started with the world, before the assets have
\* loaded
SetupWorldStartsLoop(v, mobile) ==
    [InitStars(InitLights(InitScene([v EXCEPT !.held = @ \cup {"loadedWorldUrl"}])))
     EXCEPT !.held = @ \cup {"graphicsManager"},
            !.animationFrameId = TRUE,
            !.shadows = InitFallbackShadows,
            !.loading = @ + 1, !.mobile = mobile,
            !.rejection = NoRejection, !.error = NoError]

\* createGameViewer up to the await of the two asset loads
SetupWorld(v, mobile) ==
    [InitStars(InitLights(InitScene([v EXCEPT !.held = @ \cup {"loadedWorldUrl"}])))
     EXCEPT !.held = @ \cup {"graphicsManager"},
            !.shadows = InitFallbackShadows,
            !.loading = @ + 1, !.mobile = mobile,
            !.rejection = NoRejection, !.error = NoError]

InitControls(v, mobile) ==
    [v EXCEPT !.listeners = @ \cup WindowListeners \cup CanvasListeners
                              \cup (IF mobile THEN ButtonListeners ELSE {})]

\* destroyControls, the listeners: those of the window and of the buttons
\* are removed
DestroyControls(v) ==
    [v EXCEPT !.listeners = @ \ (WindowListeners \cup ButtonListeners)]

\* what _destroyAll disposes of, each through the variable that holds it
Disposals(v) ==
    {r \in {"graphicsManager", "scene", "starField", "starMaterial", "renderer"} :
         r \in v.held}

\* fault: the frame request is cancelled but its id is kept
DestroyAllKeepsRequest(v) ==
    [DestroyControls(v)
     EXCEPT !.cancelled = v.animationFrameId,
            !.listeners = @ \ {"resize"},
            !.disposed = Disposals(v),
            !.shadows = NoShadows,
            !.held = {}]

\* _destroyAll, the module state
DestroyAll(v) ==
    [DestroyControls(v)
     EXCEPT !.cancelled = v.animationFrameId,
            !.animationFrameId = FALSE,
            !.listeners = @ \ {"resize"},
            !.disposed = Disposals(v),
            !.shadows = NoShadows,
            !.held = {}]

\* fault: the rethrown error drops the message of the loader's error
LoadErrorWithoutCause(asset, cause) ==
    IF asset = "map"
    THEN [tag |-> "MapLoadError", text |-> "Could not load the main world file.",
          cause |-> "none"]
    ELSE [tag |-> "CharacterLoadError", text |-> "Could not load the character file.",
          cause |-> "none"]

\* the rejection of a failed asset load: the wrapper's tag and text followed
\* by the message of the loader's error
LoadError(asset, cause) ==
    IF asset = "map"
    THEN [tag |-> "MapLoadError", text |-> "Could not load the main world file.",
          cause |-> cause]
    ELSE [tag |-> "CharacterLoadError", text |-> "Could not load the character file.",
          cause |-> cause]

\* createGameViewer after both assets have loaded: map, player, camera,
\* controls, frame loop
SetupGame(v) ==
    [InitControls([v EXCEPT !.held = @ \cup {"mapCollider", "player", "gameCamera"}],
                  v.mobile)
     EXCEPT !.animationFrameId = TRUE, !.loading = @ - 1]

\* _animate, the graphics step: graphicsManager.update, of which the model
\* keeps the shadow switch, for the player p the frame leaves
GraphicsUpdate(v, p) ==
    IF "graphicsManager" \in v.held
    THEN [v EXCEPT !.shadows = UpdateFallbackSystem(@, p.y)]
    ELSE v

\* the module once createGameViewer has resolved
RunningViewer == SetupGame(SetupWorld(NoViewer, FALSE))

\* the module with the character on the ground: the shadows were switched
\* on when it came down to the cutoff
LandedViewer ==
    [RunningViewer EXCEPT !.shadows = UpdateFallbackSystem(@, GROUND_Y + FEET_OFFSET)]

(***************************************************************************)
(* The state after createGameViewer has resolved                           *)
(***************************************************************************)
Init ==
    /\ player = PlayerLoad(NewPlayer)
    /\ gameCamera = NewCamera
    /\ controlsState = NoControls
    /\ pointerLock = FALSE
    /\ viewer = RunningViewer
    /\ frame = NoFrame
    /\ hist = NoHist

\* the module variables a frame callback dereferences: the clock, the player
\* (its update, its timeSinceGrounded and its model's position), the
\* raycaster and the collision meshes handed to the update, the camera, the
\* graphics manager and the two light handles handed to it
FrameReads ==
    {"clock", "player", "raycaster", "mapCollider", "gameCamera", "graphicsManager",
     "sunLight", "sunTarget"}

\* the part of the world and of the timers the model explores: the character
\* stays within MaxTravel of the spawn column, and within MaxDrift of it
\* until it has landed; it turns at most MaxTurn to the left of the spawn
\* heading; the sprint timer stays within MaxRamp
WithinBounds(p, landed) ==
    /\ p.x >= -MaxTravel /\ p.x <= MaxTravel
    /\ ~landed => (p.x >= -MaxDrift /\ p.x <= MaxDrift)
    /\ p.yaw - PI >= 0 /\ p.yaw - PI <= MaxTurn
    /\ p.walkToSprintTime <= MaxRamp

\* mouse-look keeps the orbit within MaxOrbit of the angle the camera was
\* constructed with or of the angle behind the character
WithinOrbit(c, p) ==
    \/ c.azimuth - PI >= -MaxOrbit /\ c.azimuth - PI <= MaxOrbit
    \/ c.azimuth - (p.yaw + PI) >= -MaxOrbit /\ c.azimuth - (p.yaw + PI) <= MaxOrbit

\* The readings the sensor can give while the surface is within its reach: a
\* miss is a dropout of fewer than MaxMisses frames in a row, or a hole under
\* the character, which then stays a hole until the character is reset.
SensorReading(geometry, inReach) ==
    geometry /\ inReach => hist.misses < MaxMisses

\* fault: the camera is served before the character: it reads what the
\* frame before left
AnimateCameraFirst(delta, keys, geometry) ==
    LET controls == WithMouse(keys, controlsState)
        grounded == Grounded(Raycast(player.y, geometry), player.feetOffset)
        integrated == PlayerIntegrate(player, delta, controls, geometry)
        void == BelowVoid(integrated)
        p == Housekeeping(integrated)
        c == CameraUpdate(
                 CheckLanding(gameCamera, player.timeSinceGrounded < LANDING_BUFFER,
                              player),
                 player, delta, FALSE, controls.mouseLookActive)
        inReach == Grounded(Raycast(player.y, TRUE), player.feetOffset)
    IN  /\ viewer.animationFrameId
        /\ WithinBounds(p, ~void /\ (hist.landed \/ grounded))
        /\ SensorReading(geometry, inReach)
        /\ player' = p
        /\ gameCamera' = c
        /\ frame' = [op |-> "update", short |-> delta < GROUNDED_BUFFER_TIME, grounded |-> grounded,
                     prevGrounded |-> frame.op = "update" /\ frame.grounded,
                     jumped |-> grounded /\ controls.jump,
                     moving |-> Moving(controls),
                     voidReset |-> void,
                     firstLanding |-> grounded /\ ~hist.landed,
                     ramped |-> integrated.walkToSprintTime > player.walkToSprintTime,
                     justLeftGround |-> JustLeftGround(player, grounded),
                     justLanded |-> JustLanded(player, grounded)]
        /\ hist' = [landed |-> ~void /\ (hist.landed \/ grounded),
                    misses |-> IF void \/ grounded THEN 0
                               ELSE IF inReach /\ hist.misses < MaxMisses
                                    THEN hist.misses + 1
                                    ELSE hist.misses,
                    accum |-> IF void THEN 0
                              ELSE NextAccum(hist.accum, delta, Moving(controls), grounded),
                    ep |-> IF void THEN "off"
                           ELSE NextEpisode(hist.ep, player, controls, grounded),
                    epAny |-> NextEpisode(hist.epAny, player, controls, grounded),
                    dropout |-> DropoutEpisode(hist.dropout, player, p, Moving(controls),
                                               grounded, inReach)]
        /\ viewer' = GraphicsUpdate(viewer, p)
        /\ UNCHANGED <<controlsState, pointerLock>>

\* _animate: one display refresh: player.update, gameCamera.checkLanding,
\* gameCamera.update, graphicsManager.update.  `keys` are the key and touch
\* intents the frame finds in controlsState (any snapshot can be there,
\* whatever the one before was), `geometry` whether the ray finds the surface
\* under the character.
Animate(delta, keys, geometry) ==
    LET controls == WithMouse(keys, controlsState)
        grounded == Grounded(Raycast(player.y, geometry), player.feetOffset)
        integrated == PlayerIntegrate(player, delta, controls, geometry)
        void == BelowVoid(integrated)
        p == Housekeeping(integrated)
        c == CameraUpdate(
                 CheckLanding(gameCamera, p.timeSinceGrounded < LANDING_BUFFER, p),
                 p, delta, FALSE, controls.mouseLookActive)
        inReach == Grounded(Raycast(player.y, TRUE), player.feetOffset)
    IN  /\ viewer.animationFrameId
        /\ WithinBounds(p, ~void /\ (hist.landed \/ grounded))
        /\ SensorReading(geometry, inReach)
        /\ player' = p
        /\ gameCamera' = c
        /\ frame' = [op |-> "update", short |-> delta < GROUNDED_BUFFER_TIME, grounded |-> grounded,
                     prevGrounded |-> frame.op = "update" /\ frame.grounded,
                     jumped |-> grounded /\ controls.jump,
                     moving |-> Moving(controls),
                     voidReset |-> void,
                     firstLanding |-> grounded /\ ~hist.landed,
                     ramped |-> integrated.walkToSprintTime > player.walkToSprintTime,
                     justLeftGround |-> JustLeftGround(player, grounded),
                     justLanded |-> JustLanded(player, grounded)]
        /\ hist' = [landed |-> ~void /\ (hist.landed \/ grounded),
                    misses |-> IF void \/ grounded THEN 0
                               ELSE IF inReach /\ hist.misses < MaxMisses
                                    THEN hist.misses + 1
                                    ELSE hist.misses,
                    accum |-> IF void THEN 0
                              ELSE NextAccum(hist.accum, delta, Moving(controls), grounded),
                    ep |-> IF void THEN "off"
                           ELSE NextEpisode(hist.ep, player, controls, grounded),
                    epAny |-> NextEpisode(hist.epAny, player, controls, grounded),
                    dropout |-> DropoutEpisode(hist.dropout, player, p, Moving(controls),
                                               grounded, inReach)]
        /\ viewer' = GraphicsUpdate(viewer, p)
        /\ UNCHANGED <<controlsState, pointerLock>>

\* fault: GameCamera.reset copies its look-at point onto the character
\* instead of the character's position onto its look-at point
RestartCopySwapped ==
    LET p == IF "player" \in viewer.held THEN PlayerReset(player) ELSE player
        c == IF "gameCamera" \in viewer.held
             THEN CameraReset(gameCamera, p, controlsState.mouseLookActive)
             ELSE gameCamera
    IN  /\ player' = [p EXCEPT !.x = gameCamera.tracked[1], !.y = gameCamera.tracked[2]]
        /\ gameCamera' = c
        /\ frame' = [NoFrame EXCEPT !.op = "restart"]
        /\ hist' = [NoHist EXCEPT !.epAny = hist.epAny]
        /\ UNCHANGED <<controlsState, pointerLock, viewer>>

\* restart() of the controller API
Restart ==
    LET p == IF "player" \in viewer.held THEN PlayerReset(player) ELSE player
        c == IF "gameCamera" \in viewer.held
             THEN CameraReset(gameCamera, p, controlsState.mouseLookActive)
             ELSE gameCamera
    IN  /\ player' = p
        /\ gameCamera' = c
        /\ frame' = [NoFrame EXCEPT !.op = "restart"]
        /\ hist' = [NoHist EXCEPT !.epAny = hist.epAny]
        /\ UNCHANGED <<controlsState, pointerLock, viewer>>

\* mousedown on the canvas (left button): pointer lock is requested and the
\* browser grants it or not
MouseDown(granted) ==
    /\ "mousedown" \in viewer.listeners
    /\ controlsState' = [controlsState EXCEPT !.mouseLookActive = TRUE]
    /\ pointerLock' = granted
    /\ UNCHANGED <<player, gameCamera, viewer, frame, hist>>

\* mouseup on the window (left button)
MouseUp ==
    /\ "mouseup" \in viewer.listeners
    /\ controlsState' = [controlsState EXCEPT !.mouseLookActive = FALSE]
    /\ pointerLock' = FALSE
    /\ UNCHANGED <<player, gameCamera, viewer, frame, hist>>

\* mousemove on the window
MouseMove(movementX, movementY) ==
    LET c == IF pointerLock
             THEN MouseLook(gameCamera, controlsState.mouseLookActive,
                            movementX, movementY)
             ELSE gameCamera
    IN  /\ "mousemove" \in viewer.listeners
        /\ WithinOrbit(c, player)
        /\ gameCamera' = c
        /\ frame' = [frame EXCEPT !.op = "mousemove"]
        /\ UNCHANGED <<player, controlsState, pointerLock, viewer, hist>>

\* createGameViewer, up to the await of the asset loads; at most MaxLoads
\* calls await their assets at a time
CreateGameViewer(mobile) ==
    /\ viewer.loading < MaxLoads
    /\ viewer' = SetupWorld(viewer, mobile)
    /\ frame' = [NoFrame EXCEPT !.op = "create"]
    /\ hist' = NoHist
    /\ UNCHANGED <<player, gameCamera, controlsState, pointerLock>>

\* createGameViewer from the moment both assets have loaded: the map, the
\* player, the camera and the controls are set up and, unless a frame
\* request is pending already, _animate runs its first frame, on which the
\* clock reports no elapsed time.  No frame callback runs in between: the
\* one await on the way, that of Player.load, is resumed before the browser
\* serves another frame.  With the scene torn down while the assets were
\* loading, _setupMap fails on it and the catch block runs instead.
AssetsLoaded ==
    LET loaded == PlayerLoad(NewPlayer)
        p == IF viewer.animationFrameId
             THEN loaded
             ELSE PlayerUpdate(loaded, 0, controlsState, TRUE)
        c == IF viewer.animationFrameId
             THEN NewCamera
             ELSE CameraUpdate(
                      CheckLanding(NewCamera, p.timeSinceGrounded < LANDING_BUFFER, p),
                      p, 0, FALSE, controlsState.mouseLookActive)
    IN  /\ viewer.loading > 0
        /\ IF "scene" \in viewer.held
           THEN /\ viewer' = IF viewer.animationFrameId
                             THEN SetupGame(viewer)
                             ELSE GraphicsUpdate(SetupGame(viewer), p)
                /\ player' = p
                /\ gameCamera' = c
                /\ frame' = [NoFrame EXCEPT !.op = "loaded"]
                /\ UNCHANGED controlsState
           ELSE /\ viewer' = [DestroyAll([viewer EXCEPT !.held = @ \cup {"mapCollider"}])
                              EXCEPT !.loading = @ - 1,
                                     !.error = [tag |-> "TypeError", text |-> "none",
                                                cause |-> "none"]]
                /\ controlsState' = NoControls
                /\ frame' = [NoFrame EXCEPT !.op = "failed"]
                /\ UNCHANGED <<player, gameCamera>>
        /\ hist' = NoHist
        /\ UNCHANGED pointerLock

\* createGameViewer from the moment an asset load has failed: the catch
\* block tears everything down and rethrows
AssetFailed(asset, cause) ==
    /\ viewer.loading > 0
    /\ viewer' = [DestroyAll(viewer)
                  EXCEPT !.loading = @ - 1,
                         !.rejection = [asset |-> asset, message |-> cause],
                         !.error = LoadError(asset, cause)]
    /\ controlsState' = NoControls
    /\ frame' = [NoFrame EXCEPT !.op = "failed"]
    /\ hist' = NoHist
    /\ UNCHANGED <<player, gameCamera, pointerLock>>

\* destroy() of the controller API: _destroyAll, with destroyControls
Destroy ==
    /\ viewer' = DestroyAll(viewer)
    /\ controlsState' = NoControls
    /\ frame' = [NoFrame EXCEPT !.op = "destroy"]
    /\ UNCHANGED <<player, gameCamera, pointerLock, hist>>

\* keydown / keyup on the window
KeyDown(key) ==
    /\ "keydown" \in viewer.listeners
    /\ controlsState' = [controlsState EXCEPT ![key] = TRUE]
    /\ UNCHANGED <<player, gameCamera, pointerLock, viewer, frame, hist>>

KeyUp(key) ==
    /\ "keyup" \in viewer.listeners
    /\ controlsState' = [controlsState EXCEPT ![key] = FALSE]
    /\ UNCHANGED <<player, gameCamera, pointerLock, viewer, frame, hist>>

\* touchstart / touchend (or mousedown / mouseup) on a touch button
ButtonEvent(key, pressed) ==
    /\ "touch" \in viewer.listeners
    /\ controlsState' = [controlsState EXCEPT ![key] = pressed]
    /\ UNCHANGED <<player, gameCamera, pointerLock, viewer, frame, hist>>

(***************************************************************************)
(* Specifications.  Each takes the frame's inputs from its own sets.       *)
(***************************************************************************)
\* vertical physics over a world with holes: jump is the only intent
Next ==
    \/ \E delta \in Deltas, keys \in JumpIntents, geometry \in BOOLEAN :
           Animate(delta, keys, geometry)
    \/ Restart

Spec == Init /\ [][Next]_vars

\* the jump key goes down in the air or after a frame on the ground, not on
\* the very frame of a touchdown
JumpTimed(keys) ==
    keys.jump /\ Grounded(Raycast(player.y, TRUE), player.feetOffset)
        => frame.op = "update" /\ frame.grounded

\* locomotion over solid ground: walking, sprinting and jumping
NextGround ==
    \/ \E delta \in GroundDeltas, keys \in LocomotionIntents :
           JumpTimed(keys) /\ Animate(delta, keys, TRUE)
    \/ Restart

SpecGround == Init /\ [][NextGround]_vars

\* the camera: turning and mouse-look over solid ground
NextCamera ==
    \/ \E delta \in GroundDeltas, keys \in TurnIntents : Animate(delta, keys, TRUE)
    \/ Restart
    \/ \E granted \in BOOLEAN : MouseDown(granted)
    \/ MouseUp
    \/ \E move \in MouseMoves : MouseMove(move[1], move[2])

SpecCamera == Init /\ [][NextCamera]_vars

\* the character standing idle on the surface after its landing
Standing(yaw) ==
    [GroundedAnimation(
         GroundCheck([PlayerLoad(NewPlayer) EXCEPT !.y = GROUND_Y + FEET_OFFSET,
                                                   !.verticalVelocity = 0,
                                                   !.yaw = yaw],
                     TRUE, 0),
         0, FALSE)
     EXCEPT !.loopOnce = {"jump"}]

\* the orbit angles mouse-look can leave the camera at: a grid over more than
\* a turn to either side of zero
OrbitAngles == { k * AngleStep : k \in -MaxAngleSteps..MaxAngleSteps }

\* third-person follow: the camera, left by mouse-look at any angle of the
\* grid, turns back behind a standing character frame by frame
InitFollow ==
    /\ \E yaw \in {PI, PI + MaxTurn} : player = Standing(yaw)
    /\ \E a \in OrbitAngles :
           gameCamera = [NewCamera EXCEPT !.mode = "THIRD_PERSON",
                                          !.azimuth = a,
                                          !.cinematicTimer = FALL_TRANSITION_DURATION + MaxCinematic,
                                          !.smoothedLookAt = "lerped",
                                          !.position = "lerped",
                                          !.tracked = <<0, GROUND_Y + FEET_OFFSET>>]
    /\ controlsState = NoControls
    /\ pointerLock = FALSE
    /\ viewer = LandedViewer
    /\ frame = NoFrame
    /\ hist = [NoHist EXCEPT !.landed = TRUE]

NextFollow == \E delta \in GroundDeltas : Animate(delta, NoControls, TRUE)

SpecFollow == InitFollow /\ [][NextFollow]_vars

\* the life of the viewer: creation with either outcome of the asset loads,
\* frames, input events, restart and destroy in any order; a viewer is
\* created when none exists and none is being created
Causes == {"404", "parse"}

NextViewer ==
    \/ \E mobile \in BOOLEAN :
           viewer.held = {} /\ viewer.loading = 0 /\ CreateGameViewer(mobile)
    \/ AssetsLoaded
    \/ \E asset \in {"map", "character"}, cause \in Causes : AssetFailed(asset, cause)
    \/ \E delta \in GroundDeltas : Animate(delta, controlsState, TRUE)
    \/ Restart
    \/ Destroy
    \/ KeyDown("jump")
    \/ KeyUp("jump")
    \/ \E pressed \in BOOLEAN : ButtonEvent("jump", pressed)
    \/ \E granted \in BOOLEAN : MouseDown(granted)
    \/ MouseUp

InitViewer ==
    /\ player = NewPlayer
    /\ gameCamera = NewCamera
    /\ controlsState = NoControls
    /\ pointerLock = FALSE
    /\ viewer = NoViewer
    /\ frame = NoFrame
    /\ hist = NoHist

SpecViewer == InitViewer /\ [][NextViewer]_vars

\* character files that lack one of the clips the player asks for, or all
ClipSets == { Clips \ {name} : name \in Clips } \cup {{}}

\* walking, sprinting and jumping straight ahead
ForwardIntents ==
    { [NoControls EXCEPT !.forward = f, !.jump = j] : f \in BOOLEAN, j \in BOOLEAN }

InitClips ==
    /\ \E clips \in ClipSets : player = PlayerLoadClips(NewPlayer, clips)
    /\ gameCamera = NewCamera
    /\ controlsState = NoControls
    /\ pointerLock = FALSE
    /\ viewer = RunningViewer
    /\ frame = NoFrame
    /\ hist = NoHist

NextClips ==
    \/ \E delta \in GroundDeltas, keys \in ForwardIntents :
           JumpTimed(keys) /\ Animate(delta, keys, TRUE)
    \/ Restart

SpecClips == InitClips /\ [][NextClips]_vars

\* walking over a surface on which the sensor drops out
WalkIntents == { [NoControls EXCEPT !.forward = f] : f \in BOOLEAN }

NextDropout ==
    \E delta \in GroundDeltas, keys \in WalkIntents, geometry \in BOOLEAN :
        Animate(delta, keys, geometry)

SpecDropout == Init /\ [][NextDropout]_vars

\* the fall from the spawn point onto solid ground in frames short enough
\* for the fall of one frame, at most TERMINAL_VELOCITY * delta, to stay
\* below the probe height.  The frame time varies once the fall has reached
\* the terminal velocity, where a frame falls farthest; restart() is called
\* on a character that has landed.
FallDeltas == {10, 11}

ShortestFrame == CHOOSE d \in FallDeltas : \A e \in FallDeltas : d <= e

FallFrame ==
    \E delta \in FallDeltas :
        /\ delta = ShortestFrame \/ player.verticalVelocity = TERMINAL_VELOCITY
        /\ Animate(delta, NoControls, TRUE)

NextLanding ==
    \/ FallFrame
    \/ hist.landed /\ Restart

\* the browser keeps serving the frame requests that _animate renews
SpecLanding == Init /\ [][NextLanding]_vars /\ WF_vars(FallFrame)

\* the ground gives way under a standing character: the character stands on
\* the surface, turned or not, the camera behind it in third person at the
\* polar angle mouse-look left, the mouse button held or not; from then on
\* the column under the character may hold no surface
InitRespawn ==
    /\ \E yaw \in {PI, PI + MaxTurn} :
           /\ player = Standing(yaw)
           /\ \E polar \in {NewCamera.polar, POLAR_MIN} :
                  gameCamera = [NewCamera EXCEPT !.mode = "THIRD_PERSON",
                                                 !.azimuth = yaw + PI,
                                                 !.polar = polar,
                                                 !.cinematicTimer = FALL_TRANSITION_DURATION + MaxCinematic,
                                                 !.smoothedLookAt = "lerped",
                                                 !.position = "lerped",
                                                 !.tracked = <<0, GROUND_Y + FEET_OFFSET>>]
    /\ \E held \in BOOLEAN :
           /\ controlsState = [NoControls EXCEPT !.mouseLookActive = held]
           /\ pointerLock = held
    /\ viewer = LandedViewer
    /\ frame = NoFrame
    /\ hist = [NoHist EXCEPT !.landed = TRUE]

NextRespawn ==
    \/ \E delta \in GroundDeltas, geometry \in BOOLEAN :
           Animate(delta, NoControls, geometry)
    \/ Restart

SpecRespawn == InitRespawn /\ [][NextRespawn]_vars

\* createGameViewer called over and over, whether or not a viewer exists or
\* is being created, with either outcome of its asset loads, and frames,
\* restart() and destroy() in between
NextOverlap ==
    \/ CreateGameViewer(FALSE)
    \/ AssetsLoaded
    \/ \E asset \in {"map", "character"} : AssetFailed(asset, "404")
    \/ \E delta \in GroundDeltas : Animate(delta, controlsState, TRUE)
    \/ Restart
    \/ Destroy

SpecOverlap == InitViewer /\ [][NextOverlap]_vars

(***************************************************************************)
(* Properties                                                              *)
(***************************************************************************)

\* C1: in every state, and so at the end of every Player.update frame,
\* whatever the inputs, ground-sensor readings, frame times and resets were,
\* verticalVelocity lies between the terminal velocity and the jump force,
\* the frame that triggers a jump included.
C1_VelocityWithinLimits ==
    /\ player.verticalVelocity >= TERMINAL_VELOCITY
    /\ player.verticalVelocity <= JUMP_FORCE

\* a jump triggered on a frame of no duration leaves the velocity at the
\* jump force itself
C1_JumpAtFullForce ==
    /\ frame.op = "update" /\ frame.jumped
    /\ player.verticalVelocity = JUMP_FORCE

\* C2: the camera mode is one-way.  An update frame whose debounced grounded
\* reading is true leaves the mode THIRD_PERSON (so the first such frame of a
\* cinematic fall switches it); the mode changes on no other step except a
\* restart; and THIRD_PERSON is left only by a restart, whatever
\* checkLanding and update are fed.
C2_ModeOneWay ==
    [][ /\ (frame'.op = "update" /\ player'.timeSinceGrounded < LANDING_BUFFER)
            => gameCamera'.mode = "THIRD_PERSON"
        /\ (gameCamera'.mode # gameCamera.mode /\ frame'.op # "restart")
            => /\ gameCamera.mode = "CINEMATIC_FALL"
               /\ frame'.op = "update"
               /\ player'.timeSinceGrounded < LANDING_BUFFER
        /\ (gameCamera.mode = "THIRD_PERSON" /\ frame'.op # "restart")
            => gameCamera'.mode = "THIRD_PERSON" ]_vars

\* a frame that handed checkLanding a false reading in THIRD_PERSON
C2_AirborneInThirdPerson ==
    /\ frame.op = "update"
    /\ gameCamera.mode = "THIRD_PERSON"
    /\ player.timeSinceGrounded >= LANDING_BUFFER

\* C5 (as the code has it): a frame whose integration leaves the character
\* below the void threshold ends in the spawn state: the position is the
\* spawn point, the velocity the spawn velocity, idle, walking and sprinting
\* are cleared, and jumping and falling are SET, as they are at spawn.
C5_VoidResetToSpawn ==
    frame.voidReset =>
        /\ player.x = 0 /\ player.y = SpawnY
        /\ player.verticalVelocity = SPAWN_INITIAL_VELOCITY
        /\ player.state = SpawnState
        /\ player.state.jumping /\ player.state.falling

\* C5 as stated: after a void reset the position is the spawn point and the
\* airborne flags jumping and falling are cleared.
C5_VoidResetClearsAirborne ==
    frame.voidReset =>
        /\ player.x = 0 /\ player.y = SpawnY
        /\ ~player.state.jumping /\ ~player.state.falling

\* a frame on which the fail-safe reset fired after the character had landed
\* once and then fallen through a hole
C5_FellThrough ==
    /\ frame.op = "update" /\ frame.voidReset
    /\ gameCamera.mode = "THIRD_PERSON"

\* C7: a frame whose sensor reports grounded ends with timeSinceGrounded
\* below the buffer time; and a not-grounded frame shorter than the buffer
\* time that follows a grounded frame ends with timeSinceGrounded still below
\* the buffer time (so wasGrounded of the next frame is true) and falling
\* not set.
C7_GroundedDebounce ==
    frame.op = "update" =>
        /\ frame.grounded => player.timeSinceGrounded < GROUNDED_BUFFER_TIME
        /\ (~frame.grounded /\ frame.prevGrounded /\ frame.short)
            => /\ player.timeSinceGrounded < GROUNDED_BUFFER_TIME
               /\ ~player.state.falling

\* a sensor miss of positive duration right after a grounded frame without
\* a jump
C7_SingleMiss ==
    /\ frame.op = "update" /\ ~frame.grounded /\ frame.prevGrounded /\ frame.short
    /\ player.timeSinceGrounded > 0
    /\ ~player.state.jumping

\* C3 (with the condition the code needs): from the frame of a grounded jump
\* triggered while sprinting through the frame of its landing, forward held
\* on every frame and no reset in between, every frame ends with sprinting
\* true and has not incremented walkToSprintTime.
C3_SprintSurvivesJump ==
    (frame.op = "update" /\ hist.ep \in {"air", "landed"}) =>
        /\ player.state.sprinting
        /\ ~frame.ramped

\* C3 as stated: the same of every run of frames from the jump frame to the
\* next landing frame with forward held, whether or not the character was
\* reset in between.
C3_SprintSurvivesJumpAndReset ==
    (frame.op = "update" /\ hist.epAny \in {"air", "landed"}) =>
        /\ player.state.sprinting
        /\ ~frame.ramped

\* the landing frame of a jump triggered while sprinting, forward held
C3_LandedSprinting ==
    /\ frame.op = "update" /\ hist.ep = "landed"
    /\ player.timeSinceGrounded = 0
    /\ player.state.sprinting

\* C4: sprinting turns from false to true only on a grounded frame with
\* movement input on which the grounded-moving time accumulated since the
\* last spawn, reset or grounded standstill first exceeds the threshold, and
\* that frame leaves the sprint clip active.
C4_PromotionAtThreshold ==
    [][ (~player.state.sprinting /\ player'.state.sprinting) =>
            /\ frame'.op = "update" /\ frame'.grounded /\ frame'.moving
            /\ hist.accum <= SPRINT_THRESHOLD
            /\ hist'.accum > SPRINT_THRESHOLD
            /\ player'.currentAnimation = "sprint" ]_vars

\* C6: the first grounded frame after a spawn or reset, without jump input,
\* ends with verticalVelocity 0, jumping and falling false, and the idle clip
\* (no movement input) or the walk clip (movement input) active.
C6_FirstLanding ==
    (frame.op = "update" /\ frame.firstLanding /\ ~frame.jumped) =>
        /\ player.verticalVelocity = 0
        /\ ~player.state.jumping /\ ~player.state.falling
        /\ player.currentAnimation = (IF frame.moving THEN "walk" ELSE "idle")

\* C9: after reset() the position, yaw, verticalVelocity, timeSinceGrounded,
\* the five flags, walkToSprintTime and currentAnimation are those the
\* player has right after load.
C9_ResetRestoresSpawn ==
    frame.op = "restart" =>
        LET spawned == PlayerLoad(NewPlayer)
        IN  /\ player.x = spawned.x /\ player.y = spawned.y
            /\ player.yaw = spawned.yaw
            /\ player.verticalVelocity = spawned.verticalVelocity
            /\ player.timeSinceGrounded = spawned.timeSinceGrounded
            /\ player.state = spawned.state
            /\ player.walkToSprintTime = spawned.walkToSprintTime
            /\ player.currentAnimation = spawned.currentAnimation

\* C8: in every reachable state Player.reset() twice is Player.reset() once,
\* GameCamera.reset() twice is GameCamera.reset() once, and so restart()
\* twice is restart() once.
C8_ResetIdempotent ==
    LET active == controlsState.mouseLookActive
        p1 == PlayerReset(player)
        c1 == CameraReset(gameCamera, player, active)
        r1 == CameraReset(gameCamera, p1, active)
    IN  /\ PlayerReset(p1) = p1
        /\ CameraReset(c1, player, active) = c1
        /\ CameraReset(r1, PlayerReset(p1), active) = r1

\* a restart from third-person play after the character has turned and
\* mouse-look has moved the polar angle
C8_RestartedAfterPlay ==
    /\ frame.op = "restart"
    /\ gameCamera.polar # NewCamera.polar
    /\ controlsState.mouseLookActive

\* C10: after GameCamera.reset() the mode is CINEMATIC_FALL, cinematicTimer
\* is 0, polar is the polar angle of a freshly constructed camera and
\* azimuth is the angle behind the character.
C10_CameraResetRestoresSpawn ==
    frame.op = "restart" =>
        /\ gameCamera.mode = "CINEMATIC_FALL"
        /\ gameCamera.cinematicTimer = 0
        /\ gameCamera.polar = NewCamera.polar
        /\ gameCamera.azimuth = player.yaw + PI

\* C11: for the camera angle a and the angle b behind the character, the
\* difference lerpAngle uses is congruent to b - a modulo a full turn and
\* is at most half a turn in magnitude, and lerpAngle(a, b, t) for t from 0
\* to 1 stays on that shorter arc between a and a + difference.
C11_ShorterArc ==
    LET a == gameCamera.azimuth
        b == player.yaw + PI
        diff == ShortestAngleDiff(a, b)
    IN  /\ JsMod(diff - (b - a), 2 * PI) = 0
        /\ diff >= -PI /\ diff <= PI
        /\ \A t \in 0..10 :
               LET moved == LerpAngle(a, b, t, 10) - a
               IN  IF diff >= 0 THEN moved >= 0 /\ moved <= diff
                                ELSE moved <= 0 /\ moved >= diff

\* a follow frame has turned the camera while it is more than half a turn
\* ahead of the angle behind the character, where the remainder comes out
\* negative
C11_WrappedFollow ==
    /\ frame.op = "update"
    /\ gameCamera.mode = "THIRD_PERSON"
    /\ player.yaw + PI - gameCamera.azimuth + PI < 0

\* C12: teardown happens once and is idempotent.  A destroy() leaves no
\* frame request pending and every module variable null; it cancels a
\* request exactly when one was pending and disposes of exactly the render
\* resources that were held; a destroy() that follows a destroy() cancels
\* nothing and disposes of nothing; and a frame runs only from a state with a
\* pending request and a player, so none runs after destroy().
C12_TeardownOnce ==
    [][ /\ (frame'.op = "destroy" /\ controlsState' = NoControls)
            => /\ ~viewer'.animationFrameId
               /\ viewer'.held = {}
               /\ viewer'.cancelled = viewer.animationFrameId
               /\ \A r \in {"graphicsManager", "scene", "starField", "starMaterial",
                            "renderer"} :
                      r \in viewer'.disposed <=> r \in viewer.held
               /\ frame.op = "destroy"
                      => ~viewer'.cancelled /\ viewer'.disposed = {}
        /\ (frame'.op = "update" /\ <<player, gameCamera, frame>>' # <<player, gameCamera, frame>>)
            => /\ viewer.animationFrameId
               /\ "player" \in viewer.held
               /\ frame.op # "destroy" ]_vars

\* a second destroy() of a viewer that had been running
C12_DestroyedTwice ==
    /\ frame.op = "destroy"
    /\ player.feetOffset = FEET_OFFSET
    /\ ~viewer.cancelled /\ viewer.disposed = {} /\ viewer.held = {}

\* C13: a failed asset load aborts the initialisation.  The step on which
\* createGameViewer meets the rejection of the world load or of the
\* character load throws an error tagged MapLoadError or CharacterLoadError
\* respectively that carries the loader's message; no frame has run since
\* the call and no frame request is pending; every module variable is null,
\* the player and the camera among them; and the call has installed no
\* listener and left none that teardown removes.
C13_LoadFailureAborts ==
    [][ (frame'.op = "failed" /\ frame.op # "failed"
             /\ viewer'.rejection.asset \in {"map", "character"})
            => /\ viewer'.error.tag = (IF viewer'.rejection.asset = "map"
                                       THEN "MapLoadError" ELSE "CharacterLoadError")
               /\ viewer'.error.cause = viewer'.rejection.message
               /\ frame.op \notin {"update", "loaded"}
               /\ ~viewer.animationFrameId /\ ~viewer'.animationFrameId
               /\ viewer'.held = {}
               /\ viewer'.listeners \subseteq viewer.listeners
               /\ viewer'.listeners \cap (WindowListeners \cup ButtonListeners
                                              \cup {"resize"}) = {} ]_vars

\* a createGameViewer call that has rejected because the character file
\* could not be parsed
C13_CharacterLoadFailed ==
    /\ frame.op = "failed"
    /\ viewer.error.tag = "CharacterLoadError"
    /\ viewer.error.cause = "parse"
    /\ viewer.held = {}

\* C14: a switch to a clip that was not loaded changes nothing.  In every
\* state of a character whose file lacks some clip, _switchAnimation of that
\* clip returns the player as it is, and the clip is never the current one,
\* never playing and never set to loop once, however often the frames have
\* asked for it.
C14_MissingClipIgnored ==
    \A name \in Clips \ player.animations :
        /\ SwitchAnimation(player, name) = player
        /\ player.currentAnimation # name
        /\ name \notin player.playing
        /\ name \notin player.loopOnce

\* a grounded frame has promoted the character to sprinting and asked for
\* the sprint clip, which its file lacks: the flags moved on, the clip stayed
C14_SprintClipMissing ==
    /\ frame.op = "update" /\ frame.grounded /\ frame.moving
    /\ player.state.sprinting
    /\ "sprint" \notin player.animations
    /\ player.currentAnimation = "walk"

\* C15: within a frame the character is updated first and the camera is
\* served from the result.  On every frame step the camera is left as
\* checkLanding followed by update leave it when they are given the
\* grounded-debounce value, the heading and the position that Player.update
\* has written on that same frame, and the position it has tracked is the
\* character's position at the end of the frame.
C15_FrameOrder ==
    [][ (frame'.op = "update" /\ <<player, gameCamera, frame>>' # <<player, gameCamera, frame>>)
            => /\ \E delta \in GroundDeltas :
                      gameCamera' =
                          CameraUpdate(
                              CheckLanding(gameCamera,
                                           player'.timeSinceGrounded < LANDING_BUFFER,
                                           player'),
                              player', delta, FALSE, controlsState.mouseLookActive)
               /\ gameCamera'.tracked = <<player'.x, player'.y>> ]_vars

\* the frame of the first touchdown: the camera has switched mode on the
\* reading of that very frame and turned behind the heading the character
\* was given on it
C15_SwitchedOnTouchdown ==
    /\ frame.op = "update" /\ frame.firstLanding
    /\ player.timeSinceGrounded = 0
    /\ gameCamera.mode = "THIRD_PERSON"
    /\ player.yaw # PI
    /\ gameCamera.azimuth = player.yaw + PI

\* C16: the character's position and heading have a single writer.  A step
\* that changes them is a frame, which leaves the character exactly as
\* Player.update alone leaves it, or a restart, which leaves it exactly as
\* Player.reset alone leaves it; checkLanding, the camera's update and reset
\* and the mouse-look handlers, which run on those and on the other steps,
\* add nothing to it.
C16_SingleWriter ==
    [][ /\ <<player.x, player.y, player.yaw>>' # <<player.x, player.y, player.yaw>>
            => frame'.op \in {"update", "restart"}
        /\ (frame'.op = "update" /\ <<player, gameCamera, frame>>' # <<player, gameCamera, frame>>)
            => \E delta \in GroundDeltas, keys \in TurnIntents :
                   player' = PlayerUpdate(player, delta, WithMouse(keys, controlsState), TRUE)
        /\ (frame'.op = "restart" /\ <<player, gameCamera, frame>>' # <<player, gameCamera, frame>>)
            => player' = PlayerReset(player) ]_vars

\* a restart after mouse-look has tilted the camera: the camera has been
\* reset onto the respawned character, whose spawn state it has left alone
C16_ResetWhileTracking ==
    /\ frame.op = "restart"
    /\ gameCamera.tracked = <<player.x, player.y>>
    /\ gameCamera.polar # NewCamera.polar
    /\ player.x = 0 /\ player.y = SpawnY /\ player.yaw = PI

\* C17: after destroy() no listener of the viewer is registered any more,
\* every intent is false, and so the controls state stays all false until a
\* viewer is created again.
C17_ListenersRemoved ==
    frame.op = "destroy" =>
        /\ viewer.listeners = {}
        /\ controlsState = NoControls

\* C18: a frame that finds the character grounded and the jump intent set
\* ends with the jump clip current, jumping set, idle, walking and falling
\* clear and sprinting as the frame found it, whether or not a movement
\* intent is held.
C18_JumpPostState ==
    [][ (frame'.op = "update" /\ frame'.jumped)
            => /\ player'.currentAnimation = "jump"
               /\ player'.state.jumping
               /\ ~player'.state.idle /\ ~player'.state.walking /\ ~player'.state.falling
               /\ player'.state.sprinting = player.state.sprinting ]_vars

\* C19: justLeftGround and justLanded are edge triggers.  Of two frames in
\* a row, the second reads justLeftGround exactly when it finds the
\* character off the ground and the first found it on the ground, and
\* justLanded exactly when it finds it on the ground and the first found it
\* off the ground; so neither is read on two frames in a row.
C19_EdgeTriggers ==
    [][ (frame.op = "update" /\ frame'.op = "update"
             /\ <<player, gameCamera, frame>>' # <<player, gameCamera, frame>>)
            => /\ frame'.justLeftGround <=> (~frame'.grounded /\ frame.grounded)
               /\ frame'.justLanded <=> (frame'.grounded /\ ~frame.grounded)
               /\ ~(frame.justLeftGround /\ frame'.justLeftGround)
               /\ ~(frame.justLanded /\ frame'.justLanded) ]_vars

\* C20: a single-frame miss does not flicker.  When the character walks or
\* sprints on the ground with a movement intent held and the ray misses the
\* surface on exactly one frame, that frame ends with the walking, sprinting
\* and falling flags and the current clip as the grounded frame before it
\* left them.
C20_MissDoesNotFlicker ==
    frame.op = "update" => hist.dropout # "single-flickered"

\* C21: the camera does not switch on a single contact.  When a frame of
\* the cinematic fall is the first to find the character grounded and the
\* frame after it finds it not grounded again, the camera is still in
\* CINEMATIC_FALL at the end of that second frame.
C21_NoSwitchOnSingleContact ==
    [][ (frame.op = "update" /\ frame.firstLanding
             /\ frame'.op = "update" /\ ~frame'.grounded
             /\ <<player, gameCamera, frame>>' # <<player, gameCamera, frame>>)
            => gameCamera'.mode = "CINEMATIC_FALL" ]_vars

\* C22: jumping marks only the start of a jump.  When a frame finds the
\* character grounded again after an airborne frame that ended more than
\* the fall-clip delay (and so more than the grounded buffer) after the last
\* contact and moving downwards, that airborne frame had ended with falling
\* set: the flag has come up before the landing.
C22_FallingBeforeLanding ==
    [][ (frame.op = "update" /\ ~frame.grounded
             /\ player.timeSinceGrounded > FALL_ANIM_DELAY
             /\ player.verticalVelocity < 0
             /\ frame'.op = "update" /\ frame'.grounded
             /\ <<player, gameCamera, frame>>' # <<player, gameCamera, frame>>)
            => player.state.falling ]_vars

\* C23: no jump in mid-air.  In every state, a frame on which the ray does
\* not report the character grounded leaves it the same with the jump intent
\* set as with the jump intent clear: velocity, flags and clip alike, within
\* the grounded buffer as well as beyond it.
C23_NoMidAirJump ==
    \A delta \in Deltas, geometry \in BOOLEAN :
        ~Grounded(Raycast(player.y, geometry), player.feetOffset)
            => PlayerUpdate(player, delta, [NoControls EXCEPT !.jump = TRUE], geometry)
                   = PlayerUpdate(player, delta, NoControls, geometry)

\* the frame after a grounded frame has found no ground, the character not
\* having jumped: the next frame may well find none again, still within the
\* grounded buffer
C23_DropoutWithinBuffer ==
    /\ frame.op = "update" /\ ~frame.grounded /\ frame.prevGrounded
    /\ ~player.state.jumping
    /\ player.timeSinceGrounded > 0
    /\ player.timeSinceGrounded < GROUNDED_BUFFER_TIME
    /\ ~Grounded(Raycast(player.y, FALSE), player.feetOffset)

\* C24 (with the exception the code makes): every frame that finds the
\* character not grounded ends with walking clear and with a clip that is
\* neither walk nor sprint, and, unless the frame ends in the fail-safe
\* reset, with sprinting as the frame found it.
C24_AirborneNotWalking ==
    [][ (frame'.op = "update" /\ ~frame'.grounded
             /\ <<player, gameCamera, frame>>' # <<player, gameCamera, frame>>)
            => /\ ~player'.state.walking
               /\ player'.currentAnimation \notin {"walk", "sprint"}
               /\ ~frame'.voidReset
                      => player'.state.sprinting = player.state.sprinting ]_vars

\* C24 as stated: the same of every frame that finds the character not
\* grounded, the frame that ends in the fail-safe reset included.
C24_AirborneKeepsSprintAlways ==
    [][ (frame'.op = "update" /\ ~frame'.grounded
             /\ <<player, gameCamera, frame>>' # <<player, gameCamera, frame>>)
            => /\ ~player'.state.walking
               /\ player'.currentAnimation \notin {"walk", "sprint"}
               /\ player'.state.sprinting = player.state.sprinting ]_vars

\* the first airborne frame of a sprinting character: the sprint clip has
\* given way to the placeholder, the sprinting flag is still set
C24_SprintedOffTheGround ==
    /\ frame.op = "update" /\ ~frame.grounded /\ frame.prevGrounded
    /\ player.state.sprinting
    /\ player.currentAnimation = "idle"
    /\ ~player.state.walking

\* C25: sprinting is sticky.  A step on which sprinting goes from set to
\* clear is a frame that finds the character grounded with neither forward
\* nor backward held, a frame that ends in the fail-safe reset, or a
\* restart; jumps, airborne frames, landings and turns leave it set.
C25_SprintSticky ==
    [][ (player.state.sprinting /\ ~player'.state.sprinting)
            => \/ frame'.op = "update" /\ frame'.grounded /\ ~frame'.moving
               \/ frame'.op = "update" /\ frame'.voidReset
               \/ frame'.op = "restart" ]_vars

\* a touchdown, after time in the air, of a character that is still
\* sprinting
C25_TouchdownStillSprinting ==
    /\ frame.op = "update" /\ frame.grounded /\ frame.justLanded
    /\ ~frame.firstLanding
    /\ player.state.sprinting

\* C26 (with the exception the code makes): a frame that finds the
\* character grounded with a negative velocity after gravity ends with
\* verticalVelocity 0 and the character exactly feetOffset above the contact
\* point; any other frame, unless it ends in the fail-safe reset, ends with
\* the velocity gravity and the clamp have left and the height changed by
\* exactly that velocity times the frame time.
C26_GroundSnap ==
    [][ (frame'.op = "update" /\ <<player, gameCamera, frame>>' # <<player, gameCamera, frame>>)
            => \E delta \in Deltas :
                   LET v0 == IF frame'.jumped THEN JUMP_FORCE ELSE player.verticalVelocity
                       vg == ClampTerminal(v0 + GRAVITY * delta)
                   IN  IF frame'.grounded /\ vg < 0
                       THEN /\ player'.verticalVelocity = 0
                            /\ player'.y = GROUND_Y + player.feetOffset
                       ELSE \/ frame'.voidReset
                            \/ /\ player'.verticalVelocity = vg
                               /\ player'.y = player.y + vg * delta ]_vars

\* C26 as stated: the same, with every other frame, the frame that ends in
\* the fail-safe reset included, changing the height by exactly the velocity
\* times the frame time.
C26_GroundSnapOrIntegrate ==
    [][ (frame'.op = "update" /\ <<player, gameCamera, frame>>' # <<player, gameCamera, frame>>)
            => \E delta \in Deltas :
                   LET v0 == IF frame'.jumped THEN JUMP_FORCE ELSE player.verticalVelocity
                       vg == ClampTerminal(v0 + GRAVITY * delta)
                   IN  IF frame'.grounded /\ vg < 0
                       THEN /\ player'.verticalVelocity = 0
                            /\ player'.y = GROUND_Y + player.feetOffset
                       ELSE /\ player'.verticalVelocity = vg
                            /\ player'.y = player.y + vg * delta ]_vars

\* the touchdown of the spawn fall: the character, which the fall had
\* carried past the surface, stands on it at rest
C26_SnappedOnTouchdown ==
    /\ frame.op = "update" /\ frame.firstLanding /\ ~frame.jumped
    /\ player.verticalVelocity = 0
    /\ player.y = GROUND_Y + FEET_OFFSET

\* C27 (with the exception the code makes): timeSinceGrounded is never
\* negative; a frame that finds the character grounded ends with it at 0;
\* a frame that finds it not grounded and does not end in the fail-safe
\* reset ends with it grown by exactly the frame time, and so, for a frame
\* of positive duration, above 0.
C27_GroundedTimer ==
    [][ (frame'.op = "update" /\ <<player, gameCamera, frame>>' # <<player, gameCamera, frame>>)
            => /\ player'.timeSinceGrounded >= 0
               /\ frame'.grounded => player'.timeSinceGrounded = 0
               /\ (~frame'.grounded /\ ~frame'.voidReset)
                      => \E delta \in Deltas :
                             /\ player'.timeSinceGrounded = player.timeSinceGrounded + delta
                             /\ delta > 0 => player'.timeSinceGrounded > 0 ]_vars

\* C27 as stated: the same of every frame that finds the character not
\* grounded, the frame that ends in the fail-safe reset included.
C27_GroundedTimerAlways ==
    [][ (frame'.op = "update" /\ <<player, gameCamera, frame>>' # <<player, gameCamera, frame>>)
            => /\ player'.timeSinceGrounded >= 0
               /\ frame'.grounded => player'.timeSinceGrounded = 0
               /\ ~frame'.grounded
                      => \E delta \in Deltas :
                             /\ player'.timeSinceGrounded = player.timeSinceGrounded + delta
                             /\ delta > 0 => player'.timeSinceGrounded > 0 ]_vars

\* the second frame in a row that has found no ground under a character
\* that had landed: the timer has run past the buffer time
C27_TimerPastBuffer ==
    /\ frame.op = "update" /\ ~frame.grounded /\ ~frame.prevGrounded
    /\ hist.landed
    /\ player.timeSinceGrounded > GROUNDED_BUFFER_TIME
    /\ player.timeSinceGrounded <= 2 * GROUNDED_BUFFER_TIME

\* C28: the ground-locomotion flags exclude one another.  In every state,
\* whatever frames, jumps and resets have led to it, at most one of idle,
\* walking and sprinting is set.
C28_LocomotionFlagsExclusive ==
    /\ ~(player.state.idle /\ player.state.walking)
    /\ ~(player.state.idle /\ player.state.sprinting)
    /\ ~(player.state.walking /\ player.state.sprinting)

\* a sprinting character in the air after a jump with forward held: the
\* jump frame has been through the jump block and the grounded branch, the
\* frame after it through the leave-ground block
C28_SprintJumpAirborne ==
    /\ frame.op = "update" /\ ~frame.grounded /\ frame.moving
    /\ player.state.jumping /\ player.state.sprinting
    /\ ~player.state.idle /\ ~player.state.walking

\* C29: walkToSprintTime is never negative, grows only on a frame that
\* finds the character grounded, moving and not yet sprinting, and is 0 at
\* the end of every frame on which neither forward nor backward is held.
C29_SprintTimerResets ==
    [][ (frame'.op = "update" /\ <<player, gameCamera, frame>>' # <<player, gameCamera, frame>>)
            => /\ player'.walkToSprintTime >= 0
               /\ player'.walkToSprintTime > player.walkToSprintTime
                      => frame'.grounded /\ frame'.moving /\ ~player.state.sprinting
               /\ ~frame'.moving => player'.walkToSprintTime = 0 ]_vars

C31_JumpToFallPolicy ==
    [][ (/\ frame'.op = "update"
         /\ <<player, gameCamera, frame>>' # <<player, gameCamera, frame>>
         /\ ~frame'.grounded
         /\ player.currentAnimation = "jump")
            => player'.currentAnimation =
                   IF /\ player'.timeSinceGrounded > FALL_ANIM_DELAY
                      /\ player'.verticalVelocity < FALL_ANIM_SPEED
                   THEN "idle"
                   ELSE "jump" ]_vars

\* the frame of the fall from the spawn point on which the delay runs out:
\* the jump clip has just given way to the placeholder
C31_PlaceholderAfterDelay ==
    /\ frame.op = "update" /\ ~frame.grounded /\ ~frame.voidReset
    /\ player.currentAnimation = "idle"
    /\ player.state.jumping
    /\ player.timeSinceGrounded > FALL_ANIM_DELAY
    /\ \E delta \in Deltas : player.timeSinceGrounded - delta <= FALL_ANIM_DELAY
    /\ player.verticalVelocity < FALL_ANIM_SPEED

\* C32: exactly one clip is active.  After load and after every frame and
\* reset the playing actions are the current clip and nothing else, none at
\* all when no clip has been switched to yet; the jump clip, and no other,
\* is set to play once and hold its last frame, from its first activation on.
C32_OneActiveClip ==
    /\ player.playing = IF player.currentAnimation = "none"
                        THEN {}
                        ELSE {player.currentAnimation}
    /\ player.currentAnimation \in player.animations \cup {"none"}
    /\ player.loopOnce \subseteq {"jump"}
    /\ player.currentAnimation = "jump" => "jump" \in player.loopOnce

\* the sprint clip after the ramp, two switches or more after the jump clip
\* of the spawn
C32_SprintClipAlone ==
    /\ frame.op = "update" /\ frame.grounded
    /\ player.currentAnimation = "sprint"
    /\ player.playing = {"sprint"}
    /\ player.loopOnce = {"jump"}
    /\ player.state.sprinting

\* C33: the ground sensor is a function of the frame's world state alone.
\* In every state, whatever the flags, timers and velocity the earlier
\* frames left, and with the character at its own height, just inside and
\* just at the limit distance, or more than the probe height below the
\* surface: a frame of positive length finds the character grounded (and so
\* ends with timeSinceGrounded = 0) exactly when the column under it holds
\* the surface, the ray cast from RAYCAST_HEIGHT above it reaches the
\* surface, and the hit lies strictly nearer than RAYCAST_HEIGHT +
\* feetOffset + GROUND_TOLERANCE.
C33_SensorIsPure ==
    \A geometry \in BOOLEAN, delta \in GroundDeltas,
       y \in {player.y,
              GROUND_Y + player.feetOffset + GROUND_TOLERANCE - 1,
              GROUND_Y + player.feetOffset + GROUND_TOLERANCE,
              GROUND_Y - RAYCAST_HEIGHT - 1},
       s \in {player.state, SpawnState},
       t \in {player.timeSinceGrounded, 0, SpawnTimeSinceGrounded},
       v \in {player.verticalVelocity, TERMINAL_VELOCITY, JUMP_FORCE} :
        LET q == [player EXCEPT !.y = y, !.state = s, !.timeSinceGrounded = t,
                                !.verticalVelocity = v]
            distance == y + RAYCAST_HEIGHT - GROUND_Y
        IN  (PlayerIntegrate(q, delta, NoControls, geometry).timeSinceGrounded = 0)
                <=> /\ geometry
                    /\ distance >= 0
                    /\ distance < RAYCAST_HEIGHT + player.feetOffset + GROUND_TOLERANCE

\* the touchdown after a jump: the frame found the character within reach of
\* the surface while the flags of the frames before still said airborne
C33_TouchdownAfterJump ==
    /\ frame.op = "update" /\ frame.grounded /\ frame.justLanded
    /\ ~frame.firstLanding /\ ~frame.jumped
    /\ player.timeSinceGrounded = 0
    /\ player.y = GROUND_Y + player.feetOffset

\* C34: the orbit's polar angle stays in its band.  In every state, whatever
\* mouse-look events, frames, landings and resets came before, polar lies
\* between 0.6 and pi/2 - 0.1, and a mousemove event that finds
\* mouseLookActive false leaves azimuth and polar as they are.
C34_PolarInBand ==
    /\ [](/\ gameCamera.polar >= POLAR_MIN
          /\ gameCamera.polar <= TruncDiv(PI, 2) - POLAR_MARGIN)
    /\ [][ (frame'.op = "mousemove" /\ ~controlsState.mouseLookActive)
               => /\ gameCamera'.azimuth = gameCamera.azimuth
                  /\ gameCamera'.polar = gameCamera.polar ]_vars

\* mouse-look has pushed the camera down against the upper end of the band
C34_PolarAtUpperLimit ==
    /\ frame.op = "mousemove"
    /\ controlsState.mouseLookActive /\ pointerLock
    /\ gameCamera.polar = TruncDiv(PI, 2) - POLAR_MARGIN
    /\ gameCamera.mode = "THIRD_PERSON"

\* C35 (with the exception the code makes): horizontal movement scaling.  In
\* every state, for every combination of the movement keys and either
\* reading of the sensor, the frame that follows, unless it ends in the
\* fail-safe reset, moves the character horizontally by exactly
\* base * factor * delta with forward or backward held (base 5.0 if sprinting
\* is set when the frame starts, else 2.5; factor 1.0 on a grounded reading,
\* else 0.6) and not at all otherwise; left and right turn the heading by
\* 3 rad/s, grounded or not, and change nothing else of the frame's result.
C35_MovementScaling ==
    \A delta \in GroundDeltas, geometry \in BOOLEAN, keys \in SteerIntents :
        LET grounded == Grounded(Raycast(player.y, geometry), player.feetOffset)
            q == PlayerIntegrate(player, delta, keys, geometry)
            straight == PlayerIntegrate(player, delta,
                                        [keys EXCEPT !.left = FALSE, !.right = FALSE],
                                        geometry)
            base == IF player.state.sprinting THEN SPRINT_SPEED ELSE WALK_SPEED
            step == IF grounded THEN base * delta
                    ELSE TruncDiv(base * AIR_CONTROL_TENTHS * delta, 10)
            moved == IF q.x >= player.x THEN q.x - player.x ELSE player.x - q.x
        IN  ~BelowVoid(q)
                => /\ moved = IF keys.forward \/ keys.backward THEN step ELSE 0
                   /\ PlayerUpdate(player, delta, keys, geometry) = q
                   /\ q.yaw = player.yaw
                                + (IF keys.left THEN TURN_RATE * delta ELSE 0)
                                - (IF keys.right THEN TURN_RATE * delta ELSE 0)
                   /\ [q EXCEPT !.yaw = straight.yaw] = straight

\* C35 as stated: every frame moves the character horizontally by exactly
\* base * factor * delta with forward or backward held and not at all
\* otherwise, and left and right change the heading only.
C35_MovementScalingAlways ==
    \A delta \in GroundDeltas, geometry \in BOOLEAN, keys \in SteerIntents :
        LET grounded == Grounded(Raycast(player.y, geometry), player.feetOffset)
            q == PlayerUpdate(player, delta, keys, geometry)
            straight == PlayerUpdate(player, delta,
                                     [keys EXCEPT !.left = FALSE, !.right = FALSE],
                                     geometry)
            base == IF player.state.sprinting THEN SPRINT_SPEED ELSE WALK_SPEED
            step == IF grounded THEN base * delta
                    ELSE TruncDiv(base * AIR_CONTROL_TENTHS * delta, 10)
            moved == IF q.x >= player.x THEN q.x - player.x ELSE player.x - q.x
        IN  /\ moved = IF keys.forward \/ keys.backward THEN step ELSE 0
            /\ q.yaw = player.yaw
                         + (IF keys.left THEN TURN_RATE * delta ELSE 0)
                         - (IF keys.right THEN TURN_RATE * delta ELSE 0)
            /\ [q EXCEPT !.yaw = straight.yaw] = straight

\* a sprinting character steered forward through the air, at 0.6 of the
\* sprint speed
C35_SprintingThroughTheAir ==
    /\ frame.op = "update" /\ ~frame.grounded /\ frame.moving /\ ~frame.voidReset
    /\ player.state.sprinting
    /\ player.x > 0
    /\ player.timeSinceGrounded > GROUNDED_BUFFER_TIME

\* C36: the fail-safe reset inside Player.update resets the player only.  A
\* frame that ends in it leaves the camera what any frame leaves it: mode and
\* polar as they were, cinematicTimer as it was in THIRD_PERSON and advanced
\* by the frame time in CINEMATIC_FALL, azimuth as it was or, in THIRD_PERSON
\* without mouse-look, one follow step nearer the angle behind the character;
\* so a camera in THIRD_PERSON stays there while the character falls again.
\* restart() puts the camera back into CINEMATIC_FALL with the timer at 0
\* and the azimuth behind the character.
C36_VoidResetSparesCamera ==
    [][ /\ (/\ frame'.op = "update"
            /\ <<player, gameCamera, frame>>' # <<player, gameCamera, frame>>
            /\ frame'.voidReset)
               => /\ player'.y = SpawnY /\ player'.state = SpawnState
                  /\ gameCamera'.mode = gameCamera.mode
                  /\ gameCamera'.polar = gameCamera.polar
                  /\ IF gameCamera.mode = "CINEMATIC_FALL"
                     THEN \E delta \in GroundDeltas :
                              gameCamera'.cinematicTimer =
                                  AdvanceCinematic(gameCamera.cinematicTimer, delta)
                     ELSE gameCamera'.cinematicTimer = gameCamera.cinematicTimer
                  /\ gameCamera'.azimuth =
                         IF gameCamera.mode = "THIRD_PERSON" /\ ~controlsState.mouseLookActive
                         THEN LerpAngle(gameCamera.azimuth, player'.yaw + PI, 1, 10)
                         ELSE gameCamera.azimuth
        /\ (frame'.op = "restart" /\ "gameCamera" \in viewer.held)
               => /\ gameCamera'.mode = "CINEMATIC_FALL"
                  /\ gameCamera'.cinematicTimer = 0
                  /\ gameCamera'.polar = gameCamera.polar
                  /\ gameCamera'.azimuth = player'.yaw + PI ]_vars

\* the character, turned away from the spawn heading, has fallen through the
\* world and is back at the spawn point; the camera, tilted by mouse-look, is
\* still in THIRD_PERSON and has begun to swing round behind it
C36_RespawnedInThirdPerson ==
    /\ frame.op = "update" /\ frame.voidReset
    /\ player.y = SpawnY /\ player.yaw = PI
    /\ gameCamera.mode = "THIRD_PERSON"
    /\ gameCamera.polar = POLAR_MIN
    /\ gameCamera.azimuth # player.yaw + PI

\* C37: the frame callback never dereferences a missing component.  In every
\* state, however createGameViewer calls with either outcome, restart(),
\* destroy() and frames were interleaved: while a frame request is pending,
\* and so after every frame that ran, the clock, the player with its model,
\* the camera, the graphics manager, the light handles and the other
\* variables the callback reads are all set; and none is pending while a
\* first viewer is still being created or after the state was cleared.
C37_FrameReadsPresent ==
    /\ viewer.animationFrameId
           => /\ FrameReads \subseteq viewer.held
              /\ player.feetOffset = FEET_OFFSET
              /\ player.animations = Clips
    /\ frame.op \in {"update", "loaded"} => viewer.animationFrameId
    /\ viewer.held = {} => ~viewer.animationFrameId

\* a frame has run on the viewer that exists while two further
\* createGameViewer calls, which have replaced the scene, the lights and the
\* graphics manager, await their assets
C37_FrameDuringSecondLoad ==
    /\ frame.op = "update"
    /\ viewer.animationFrameId
    /\ viewer.loading = MaxLoads
    /\ hist.landed

\* C38: after the first landing that follows a spawn or a reset, jumping and
\* falling are never set together.  A frame with a ground jump ends with
\* jumping set and falling clear; falling goes from clear to set only on a
\* frame that found jumping clear, or on a reset; a grounded frame without a
\* jump ends with both clear; and both are set together only between a
\* spawn or reset and the first grounded frame after it.
C38_JumpingExcludesFalling ==
    /\ [](player.state.jumping /\ player.state.falling => ~hist.landed)
    /\ [][ (frame'.op = "update"
                /\ <<player, gameCamera, frame>>' # <<player, gameCamera, frame>>)
             => /\ frame'.jumped => player'.state.jumping /\ ~player'.state.falling
                /\ frame'.grounded /\ ~frame'.jumped
                       => ~player'.state.jumping /\ ~player'.state.falling
                /\ ~player.state.falling /\ player'.state.falling
                       => ~player.state.jumping \/ frame'.voidReset ]_vars

\* in the air after a ground jump, past the grounded buffer: jumping is set
\* and falling is not
C38_JumpingPastBuffer ==
    /\ frame.op = "update" /\ ~frame.grounded /\ hist.landed
    /\ player.state.jumping /\ ~player.state.falling
    /\ player.timeSinceGrounded > GROUNDED_BUFFER_TIME
    /\ player.verticalVelocity < 0

\* C39: the fallback shadow switch follows the altitude.  After every frame,
\* and so after every updateFallbackSystem call since the graphics manager
\* was initialised, castShadow of the sun light equals
\* fallbackState.shadowsActive, and both are set exactly when the player is
\* at or below the altitude cutoff.
C39_ShadowsFollowAltitude ==
    frame.op = "update" /\ "graphicsManager" \in viewer.held
        => /\ viewer.shadows.castShadow = viewer.shadows.shadowsActive
           /\ viewer.shadows.shadowsActive <=> player.y <= ALTITUDE_CUTOFF

====
